---- MODULE Spec2Model ----
(***************************************************************************)
(* A model of the voicebun agent runtime.                                  *)
(*                                                                         *)
(*   backend_agent.py  entrypoint: listeners, connect, the 15-poll wait    *)
(*                     for an agent_setup message, session assembly,       *)
(*                     session.start and the greeting;                     *)
(*   voice_agent.py    entrypoint: a configuration loaded by id, the four  *)
(*                     _create_* factories, session start and greeting.    *)
(*                                                                         *)
(* Spec runs one of the two entrypoints.  FnSpec applies get_stt_model,   *)
(* DynamicAssistant and get_personalized_greeting of backend_agent.py to   *)
(* every configuration and code blob of the model.                         *)
(*                                                                         *)
(* The asyncio event loop is modelled by its FIFO ready queue: a handle is *)
(* either the wake-up of the entrypoint coroutine or one task created by   *)
(* asyncio.create_task(handle_config_update(...)).                         *)
(***************************************************************************)
EXTENDS Integers, Sequences, FiniteSets, TLC

VARIABLES
    program,        \* which entrypoint this run executes: "backend" | "voice"
    pc,             \* backend entrypoint: where the coroutine is suspended
    i,              \* backend entrypoint: the loop variable of the wait
    now,            \* one-unit sleeps that have expired so far
    listening,      \* the data_received listener is registered
    ready,          \* the event loop's ready queue (FIFO)
    config,         \* entrypoint's local `config`
    generated_code, \* entrypoint's local `generated_code`
    session,        \* entrypoint's local `session` (its bindings) or None
    assistant,      \* entrypoint's local `assistant` or None
    startResult,    \* outcome of session.start: "none" | "ok" | "failed"
    greetings,      \* the instructions handed to session.generate_reply, in order
    gate,           \* how the wait loop ended: "pending" | "Arrived" | "TimedOut"
    gateConfig,     \* `config` as it was when the wait loop ended
    gateCode,       \* `generated_code` as it was when the wait loop ended
    gateAt,         \* `now` when the wait loop ended
    raised,         \* the errors that left a handler, a task or the entrypoint
    delivered,      \* what became of each data packet the room delivered, in order
    first,          \* the first agent_setup message the handler accepted, and when
    seen,           \* <<time, key>> of every config key an accepted message carried
    dropped,        \* a packet arrived while no listener was registered
    startCalls,     \* number of calls of session.start
    vaPc,           \* voice_agent entrypoint: where the coroutine is suspended
    vaConfig,       \* voice_agent entrypoint: the loaded AgentConfiguration or None
    vaMade,         \* voice_agent entrypoint: what each _create_* call made
    closed,         \* the sending participant has disconnected
    processed,      \* the packets handle_config_update has applied, in order
    formatted       \* format_response: its arguments and its result, or None

vars == <<program, pc, i, now, listening, ready, config, generated_code,
          session, assistant, startResult, greetings, gate, gateConfig,
          gateCode, gateAt, raised, delivered, first, seen, dropped,
          startCalls, vaPc, vaConfig, vaMade, closed, processed, formatted>>

backendVars == <<pc, i, now, listening, ready, config, generated_code,
                 assistant, gate, gateConfig, gateCode, gateAt, delivered,
                 first, seen, dropped, closed, processed>>
vaVars == <<vaPc, vaConfig, vaMade>>

(***************************************************************************)
(* Bounds of the model.                                                    *)
(***************************************************************************)
MaxEvents == 2
MaxCapabilities == 4
MaxLength == 14

(***************************************************************************)
(* Values.                                                                 *)
(***************************************************************************)
None == "None"

\* `for i in range(15)`
WaitPolls == 15

\* The values json.loads puts into a configuration: a text, a number, a
\* list of values, or null.
Text(s) == [kind |-> "text", val |-> s]
Number(n) == [kind |-> "number", val |-> n]
List(xs) == [kind |-> "list", val |-> xs]
Null == [kind |-> "null", val |-> 0]

\* Python truthiness of a value
Truth(v) ==
    CASE v.kind = "text"   -> v.val # ""
      [] v.kind = "number" -> v.val # 0
      [] v.kind = "list"   -> Len(v.val) > 0
      [] v.kind = "null"   -> FALSE

\* A value can be a dict key (`x in some_dict`, `some_dict.get(x)`)
Hashable(v) == v.kind # "list"

\* str(v) of a scalar, as an f-string formats it
Format(v) ==
    CASE v.kind = "text"   -> v.val
      [] v.kind = "number" -> ToString(v.val)
      [] v.kind = "null"   -> "None"

\* Every item of a list is a text (what str.join accepts)
AllText(xs) == \A k \in 1..Len(xs) : xs[k].kind = "text"

\* The texts of a list of texts
Texts(xs) == [k \in 1..Len(xs) |-> xs[k].val]

\* `{}`
EmptyConfig == [k \in {} |-> None]

\* dict.get(key, default)
Get(c, k, d) == IF k \in DOMAIN c THEN c[k] ELSE d

\* A variant of Update: the mapping is replaced, not merged.
Update_replace(c, n) == n

\* dict.update(other) for a mapping `other`
Update(c, n) ==
    [k \in DOMAIN c \cup DOMAIN n |-> IF k \in DOMAIN n THEN n[k] ELSE c[k]]

\* Python truthiness of a dict
Truthy(c) == DOMAIN c # {}

\* sep.join(parts)
RECURSIVE Join(_, _)
Join(parts, sep) ==
    IF Len(parts) = 0 THEN ""
    ELSE IF Len(parts) = 1 THEN parts[1]
    ELSE parts[1] \o sep \o Join(Tail(parts), sep)

\* str.title() on the language names of the model
Title(s) ==
    CASE s = "english" -> "English"
      [] s = "spanish" -> "Spanish"
      [] s = "french"  -> "French"
      [] s = "klingon" -> "Klingon"
      [] OTHER -> s

\* An optional object is a sequence: <<>> for None, <<v>> for the object v.
NoObject == <<>>
Some(v) == <<v>>
IsSome(o) == Len(o) > 0
The(o) == o[1]

\* What a call made: the object it returned, or the error it raised.
Made(obj) == [err |-> "", obj |-> Some(obj)]
Raises(err) == [err |-> err, obj |-> NoObject]

\* No _create_* call has been made yet.
NothingMade == [c \in {"stt", "tts", "llm", "vad"} |-> NoObject]

(***************************************************************************)
(* DynamicAssistant                                                        *)
(***************************************************************************)
personality_map ==
    [friendly     |-> "Be warm, approachable, and encouraging in your responses.",
     professional |-> "Maintain a formal, business-like tone and be precise in your communication.",
     casual       |-> "Use a relaxed, informal tone as if talking to a friend.",
     witty        |-> "Be clever and humorous, using appropriate jokes and wordplay.",
     empathetic   |-> "Show understanding and emotional support, be compassionate and caring."]

style_map ==
    [conversational |-> "Use natural, flowing conversation style.",
     concise        |-> "Keep responses brief and to the point.",
     detailed       |-> "Provide thorough, comprehensive explanations.",
     creative       |-> "Be imaginative and expressive in your responses."]

\* A variant of base_instructions: another literal.
base_instructions_short == "You are a helpful assistant."

base_instructions == "You are a helpful voice AI assistant."

\* `key in table` for a table keyed by text: an unhashable key raises.
InTable(v, table) == v.kind = "text" /\ v.val \in DOMAIN table

\* The five steps that append to instructions_parts, in order.  Each is what
\* the step appends (no part, or one part) or the error it raises.
instructions_parts(cfg) ==
    LET prompt         == Get(cfg, "prompt", Text(""))
        personality    == Get(cfg, "personality", Text("friendly"))
        capabilities   == Get(cfg, "capabilities", List(<<>>))
        language       == Get(cfg, "language", Text("english"))
        response_style == Get(cfg, "responseStyle", Text("conversational"))
    IN  << IF Truth(prompt)
           THEN Made(<<"Core Instructions: " \o Format(prompt)>>) ELSE Made(<<>>),
           IF ~Hashable(personality) THEN Raises("TypeError: unhashable type")
           ELSE IF InTable(personality, personality_map)
           THEN Made(<<"Personality: " \o personality_map[personality.val]>>)
           ELSE Made(<<>>),
           IF ~Truth(capabilities) THEN Made(<<>>)
           ELSE IF capabilities.kind # "list" \/ ~AllText(capabilities.val)
           THEN Raises("TypeError: join")
           ELSE Made(<<"Your main capabilities include: "
                        \o Join(Texts(capabilities.val), ", ")>>),
           IF ~Hashable(response_style) THEN Raises("TypeError: unhashable type")
           ELSE IF InTable(response_style, style_map)
           THEN Made(<<"Response Style: " \o style_map[response_style.val]>>)
           ELSE Made(<<>>),
           IF language = Text("english") THEN Made(<<>>)
           ELSE IF language.kind # "text" THEN Raises("AttributeError: title")
           ELSE Made(<<"Respond primarily in " \o Title(language.val) \o ".">>) >>

\* The steps run in order: the first error ends the call, otherwise the
\* parts appended so far are kept.
RECURSIVE RunSteps(_, _, _)
RunSteps(steps, k, parts) ==
    IF k > Len(steps) THEN Made(parts)
    ELSE IF steps[k].err # "" THEN Raises(steps[k].err)
    ELSE RunSteps(steps, k + 1, parts \o The(steps[k].obj))

\* A variant of _build_instructions: the parts are joined by ", ".
_build_instructions_comma(cfg) ==
    IF ~Truthy(cfg) THEN Made(base_instructions)
    ELSE LET r == RunSteps(instructions_parts(cfg), 1, <<>>)
         IN  IF r.err # "" THEN Raises(r.err)
             ELSE IF Len(The(r.obj)) > 0 THEN Made(Join(The(r.obj), ", "))
             ELSE Made(base_instructions)

_build_instructions(cfg) ==
    IF ~Truthy(cfg) THEN Made(base_instructions)
    ELSE LET r == RunSteps(instructions_parts(cfg), 1, <<>>)
         IN  IF r.err # "" THEN Raises(r.err)
             ELSE IF Len(The(r.obj)) > 0 THEN Made(Join(The(r.obj), " "))
             ELSE Made(base_instructions)

\* The code blobs of the model, as source text.
BlobClass == "class Custom(Agent): def __init__(self): super().__init__(instructions='Custom X')"
BlobClassConfig == "class C(Agent): def __init__(self, config): super().__init__(instructions='Custom C')"
BlobClassLocal == "class L(Agent): def __init__(self): config = {}; super().__init__(instructions='Custom L')"
BlobClassRaises == "class R(Agent): def __init__(self): raise ValueError('r')"
BlobClassBare == "class B(Agent): def __init__(self): pass"
BlobClassAndFn == "class Custom(Agent): def __init__(self): super().__init__(instructions='Custom X'); def get_instructions(config): return 'From F'"
BlobFn == "def get_instructions(config): return 'From F'"
BlobFnRaises == "def get_instructions(config): raise ValueError('f')"
BlobNothing == "x = 1"
BlobSyntax == "def ("
BlobRaises == "raise ValueError('e')"
BlobExit == "raise SystemExit(1)"

Blobs ==
    {BlobClass, BlobClassConfig, BlobClassLocal, BlobClassRaises, BlobClassBare,
     BlobClassAndFn, BlobFn, BlobFnRaises, BlobNothing, BlobSyntax, BlobRaises,
     BlobExit}

\* A class an evaluated blob defines: whether 'config' is among the
\* co_varnames of its __init__, whether __init__ takes a config parameter,
\* the error __init__ raises, and the `instructions` of an instance, if any.
Class(name, varname, param, raises, instructions) ==
    [name |-> name, varname |-> varname, param |-> param, raises |-> raises,
     instructions |-> instructions]

\* exec(self.generated_code, exec_globals, exec_locals): the error it raises
\* ("" for none; "BaseException" for one that is not an Exception), the
\* subclasses of Agent in exec_locals in order, and get_instructions if
\* defined (the text it returns, or "" with the error it raises).
exec(code) ==
    LET Locals(classes, fn) == [raises |-> "", classes |-> classes, fn |-> fn]
        Custom == Class("Custom", FALSE, FALSE, "", Some("Custom X"))
        F == Some([raises |-> "", returns |-> "From F"])
    IN  CASE code = BlobClass -> Locals(<<Custom>>, NoObject)
          [] code = BlobClassConfig ->
                Locals(<<Class("C", TRUE, TRUE, "", Some("Custom C"))>>, NoObject)
          [] code = BlobClassLocal ->
                Locals(<<Class("L", TRUE, FALSE, "", Some("Custom L"))>>, NoObject)
          [] code = BlobClassRaises ->
                Locals(<<Class("R", FALSE, FALSE, "Exception", NoObject)>>, NoObject)
          [] code = BlobClassBare ->
                Locals(<<Class("B", FALSE, FALSE, "", NoObject)>>, NoObject)
          [] code = BlobClassAndFn -> Locals(<<Custom>>, F)
          [] code = BlobFn -> Locals(<<>>, F)
          [] code = BlobFnRaises ->
                Locals(<<>>, Some([raises |-> "Exception", returns |-> ""]))
          [] code = BlobNothing -> Locals(<<>>, NoObject)
          [] code = BlobSyntax ->
                [raises |-> "Exception", classes |-> <<>>, fn |-> NoObject]
          [] code = BlobRaises ->
                [raises |-> "Exception", classes |-> <<>>, fn |-> NoObject]
          [] code = BlobExit ->
                [raises |-> "BaseException", classes |-> <<>>, fn |-> NoObject]

\* What _execute_generated_code hands back: the error that left it (""
\* for none), the custom assistant or None, and the calls it made into the
\* evaluated code, in order.
Loaded(err, custom, calls) == [err |-> err, custom |-> custom, calls |-> calls]

\* `except Exception` catches every error but a BaseException.
Caught(err) == err = "Exception"

_execute_generated_code(code, cfg) ==
    LET locals == exec(code)
    IN  IF locals.raises # ""
        THEN IF Caught(locals.raises) THEN Loaded("", NoObject, <<>>)
             ELSE Loaded(locals.raises, NoObject, <<>>)
        ELSE IF Len(locals.classes) > 0
        THEN LET cls  == locals.classes[1]
                 call == IF cls.varname THEN cls.name \o "(config)"
                         ELSE cls.name \o "()"
                 err  == IF cls.varname # cls.param THEN "Exception"
                         ELSE cls.raises
             IN  IF err = "" THEN Loaded("", Some([instructions |-> cls.instructions]), <<call>>)
                 ELSE IF Caught(err) THEN Loaded("", NoObject, <<call>>)
                 ELSE Loaded(err, NoObject, <<call>>)
        ELSE IF IsSome(locals.fn)
        THEN LET fn == The(locals.fn)
             IN  IF fn.raises = ""
                 THEN Loaded("", Some([instructions |-> Some(fn.returns)]),
                             <<"get_instructions(config)">>)
                 ELSE IF Caught(fn.raises)
                 THEN Loaded("", NoObject, <<"get_instructions(config)">>)
                 ELSE Loaded(fn.raises, NoObject, <<"get_instructions(config)">>)
        ELSE Loaded("", NoObject, <<>>)

\* `if self.generated_code:`
CodeTruthy(code) == code # None /\ code # ""

\* The assistant DynamicAssistant.__init__ leaves behind: whether the code
\* blob was executed, whether a custom assistant was loaded, the instructions
\* given to Agent.__init__, the calls made into the evaluated code, and the
\* number of times _build_instructions was evaluated.
Assistant(executed, custom, instructions, calls, built) ==
    [executed |-> executed, custom |-> custom, instructions |-> instructions,
     calls |-> calls, built |-> built]

\* DynamicAssistant(config, generated_code)
DynamicAssistant(cfg, code) ==
    LET synth == _build_instructions(cfg)
    IN  IF ~CodeTruthy(code)
        THEN IF synth.err # "" THEN Raises(synth.err)
             ELSE Made(Assistant(FALSE, FALSE, The(synth.obj), <<>>, 1))
        ELSE LET loaded == _execute_generated_code(code, cfg)
             IN  IF loaded.err # "" THEN Raises(loaded.err)
                 ELSE IF IsSome(loaded.custom)
                 THEN \* getattr(custom, 'instructions', self._build_instructions())
                      IF synth.err # "" THEN Raises(synth.err)
                      ELSE Made(Assistant(TRUE, TRUE,
                                  IF IsSome(The(loaded.custom).instructions)
                                  THEN The(The(loaded.custom).instructions)
                                  ELSE The(synth.obj),
                                  loaded.calls, 1))
                 ELSE IF synth.err # "" THEN Raises(synth.err)
                 ELSE Made(Assistant(TRUE, FALSE, The(synth.obj), loaded.calls, 1))

(***************************************************************************)
(* get_stt_model / get_llm_model / get_tts_model / get_personalized_greeting*)
(***************************************************************************)
language_map ==
    [english |-> "en", spanish |-> "es", french |-> "fr",
     german |-> "de", chinese |-> "zh", japanese |-> "ja"]

Binding(cls, model, opts) == [cls |-> cls, model |-> model, opts |-> opts]

get_stt_model(cfg) ==
    LET language == Get(cfg, "language", Text("english"))
    IN  IF ~Hashable(language) THEN Raises("TypeError: unhashable type")
        ELSE Made(Binding("deepgram.STT", "nova-3",
                          IF InTable(language, language_map)
                          THEN language_map[language.val] ELSE "multi"))

get_llm_model(cfg) == Binding("openai.LLM", "gpt-4o-mini", None)

get_tts_model(cfg) == Binding("cartesia.TTS", None, None)

silero_VAD_load == Binding("silero.VAD", None, None)

greetings_map ==
    [friendly     |-> "Hello! I'm your friendly AI assistant. How can I help you today?",
     professional |-> "Good day. I am your AI assistant, ready to provide professional assistance.",
     casual       |-> "Hey there! What's up? How can I help you out?",
     witty        |-> "Well hello there! Your charming AI assistant is here and ready to dazzle you with assistance!",
     empathetic   |-> "Hello, and welcome! I'm here to listen and help you with whatever you need."]

\* A variant of get_personalized_greeting: three capabilities are not listed.
get_personalized_greeting_lt3(cfg) ==
    LET personality   == Get(cfg, "personality", Text("friendly"))
        capabilities  == Get(cfg, "capabilities", List(<<>>))
        base_greeting == IF InTable(personality, greetings_map)
                         THEN greetings_map[personality.val]
                         ELSE greetings_map["friendly"]
    IN  IF ~Hashable(personality) THEN Raises("TypeError: unhashable type")
        ELSE IF ~Truth(capabilities) THEN Made(base_greeting)
        ELSE IF capabilities.kind # "list" THEN Raises("TypeError: len")
        ELSE IF Len(capabilities.val) < 3
        THEN IF ~AllText(capabilities.val) THEN Raises("TypeError: join")
             ELSE Made(base_greeting \o " I can help you with "
                         \o Join(Texts(capabilities.val), ", ") \o ".")
        ELSE Made(base_greeting
                    \o " I have various capabilities to assist you with different tasks.")

get_personalized_greeting(cfg) ==
    LET personality   == Get(cfg, "personality", Text("friendly"))
        capabilities  == Get(cfg, "capabilities", List(<<>>))
        base_greeting == IF InTable(personality, greetings_map)
                         THEN greetings_map[personality.val]
                         ELSE greetings_map["friendly"]
    IN  IF ~Hashable(personality) THEN Raises("TypeError: unhashable type")
        ELSE IF ~Truth(capabilities) THEN Made(base_greeting)
        ELSE IF capabilities.kind # "list" THEN Raises("TypeError: len")
        ELSE IF Len(capabilities.val) <= 3
        THEN IF ~AllText(capabilities.val) THEN Raises("TypeError: join")
             ELSE Made(base_greeting \o " I can help you with "
                         \o Join(Texts(capabilities.val), ", ") \o ".")
        ELSE Made(base_greeting
                    \o " I have various capabilities to assist you with different tasks.")

(***************************************************************************)
(* Data packets.  A packet is described by how far on_data_received gets   *)
(* with it: bytes that do not decode, text that is not JSON, JSON that is  *)
(* not a mapping, or a mapping (a message) with its `type`, the shape of   *)
(* its `config` value and its `generatedCode`.                             *)
(*   cshape: "absent"   the key is missing (get's default {} is used)      *)
(*           "mapping"  a JSON object, the field `config`                  *)
(*           "null"     a falsy value that is not iterable: null, 0, false *)
(*           "emptyseq" a falsy iterable: [] or ""                         *)
(*           "truthy"   any other value: a number, a text, a list          *)
(***************************************************************************)
ConfigA == [personality |-> Text("witty")]
ConfigB == [personality |-> Text("casual"), language |-> Text("spanish")]

Packet(form, type, cshape, cfg, code) ==
    [form |-> form, type |-> type, cshape |-> cshape, config |-> cfg, code |-> code]

Packets ==
    {Packet(f, None, "absent", EmptyConfig, None) :
        f \in {"badbytes", "badjson", "nonmapping"}}
    \cup {Packet("message", t, "absent", EmptyConfig, None) : t \in {None, "other"}}
    \cup {Packet("message", "agent_setup", "mapping", c, None) :
            c \in {ConfigA, ConfigB}}
    \cup {Packet("message", "agent_setup", "mapping", c, BlobClass) :
            c \in {EmptyConfig, ConfigA}}
    \cup {Packet("message", "agent_setup", s, EmptyConfig, BlobClass) :
            s \in {"absent", "null", "emptyseq"}}
    \cup {Packet("message", "agent_setup", "truthy", EmptyConfig, None)}

\* A packet that on_data_received is meant to accept: a well-formed agent_setup.
WellFormedSetup(p) ==
    p.form = "message" /\ p.type = "agent_setup" /\ p.cshape \in {"absent", "mapping"}

\* A packet that is malformed: undecodable, not JSON, not a mapping, or a
\* mapping whose config is not a mapping.
Malformed(p) ==
    \/ p.form # "message"
    \/ p.cshape \in {"null", "emptyseq", "truthy"}

(***************************************************************************)
(* The ready queue.                                                        *)
(***************************************************************************)
MainHandle == [h |-> "main", packet |-> Packet("message", None, "absent", EmptyConfig, None), at |-> 0]
UpdateHandle(p, t) == [h |-> "update", packet |-> p, at |-> t]

MainQueued == \E k \in 1..Len(ready) : ready[k].h = "main"
HeadIs(kind) == Len(ready) > 0 /\ Head(ready).h = kind

(***************************************************************************)
(* backend_agent.entrypoint                                                *)
(***************************************************************************)
\* A variant of Preamble: the room is joined before the listeners are set up.
PreambleConnectFirst == <<"connect", "listen">>

\* The order of the two steps before the first suspension of entrypoint.
Preamble == <<"listen", "connect">>

ListenBeforeConnect ==
    \E a, b \in 1..Len(Preamble) :
        a < b /\ Preamble[a] = "listen" /\ Preamble[b] = "connect"

Init ==
    /\ program \in {"backend", "voice"}
    /\ pc = "init"
    /\ i = 0
    /\ now = 0
    /\ listening = FALSE
    /\ ready = <<>>
    /\ config = EmptyConfig
    /\ generated_code = None
    /\ session = NoObject
    /\ assistant = NoObject
    /\ startResult = "none"
    /\ greetings = <<>>
    /\ gate = "pending"
    /\ gateConfig = EmptyConfig
    /\ gateCode = None
    /\ gateAt = 0
    /\ raised = {}
    /\ delivered = <<>>
    /\ first = NoObject
    /\ seen = {}
    /\ dropped = FALSE
    /\ startCalls = 0
    /\ vaPc = "init"
    /\ vaConfig = NoObject
    /\ vaMade = NothingMade
    /\ closed = FALSE
    /\ processed = <<>>
    /\ formatted = NoObject

\* entrypoint up to `await ctx.connect()`.
Start ==
    /\ program = "backend" /\ pc = "init"
    /\ listening' = ListenBeforeConnect
    /\ pc' = "connecting"
    /\ UNCHANGED <<program, i, now, ready, config, generated_code, session,
                   assistant, startResult, greetings, gate, gateConfig, gateCode,
                   gateAt, raised, delivered, first, seen, dropped>>
    /\ UNCHANGED <<startCalls, vaVars>>
    /\ UNCHANGED <<closed, processed, formatted>>

\* ctx.connect() completes: the entrypoint becomes ready to run.
ConnectReturns ==
    /\ program = "backend" /\ pc = "connecting" /\ ~MainQueued
    /\ ready' = Append(ready, MainHandle)
    /\ UNCHANGED <<program, pc, i, now, listening, config, generated_code,
                   session, assistant, startResult, greetings, gate, gateConfig,
                   gateCode, gateAt, raised, delivered, first, seen, dropped>>
    /\ UNCHANGED <<startCalls, vaVars>>
    /\ UNCHANGED <<closed, processed, formatted>>

\* entrypoint from the return of connect to the first `await asyncio.sleep(1)`.
EnterWait ==
    /\ pc = "connecting" /\ HeadIs("main")
    /\ ready' = Tail(ready)
    /\ listening' = TRUE
    /\ i' = 0
    /\ pc' = "sleeping"
    /\ UNCHANGED <<program, now, config, generated_code, session, assistant,
                   startResult, greetings, gate, gateConfig, gateCode, gateAt,
                   raised, delivered, first, seen, dropped>>
    /\ UNCHANGED <<startCalls, vaVars>>
    /\ UNCHANGED <<closed, processed, formatted>>

\* One unit of time passes: the pending sleep expires.
TimerFires ==
    /\ pc = "sleeping" /\ ~MainQueued
    /\ now' = now + 1
    /\ ready' = Append(ready, MainHandle)
    /\ UNCHANGED <<program, pc, i, listening, config, generated_code, session,
                   assistant, startResult, greetings, gate, gateConfig, gateCode,
                   gateAt, raised, delivered, first, seen, dropped>>
    /\ UNCHANGED <<startCalls, vaVars>>
    /\ UNCHANGED <<closed, processed, formatted>>

\* A variant of WaitOver: the loop ends only by `break`.
WaitOver_config_only == Truthy(config)

\* The loop ends after this poll: `break`, or the range is exhausted.
WaitOver == Truthy(config) \/ i + 1 >= WaitPolls

\* The wait goes on: `config` is empty and polls are left.
PollAgain ==
    /\ pc = "sleeping" /\ HeadIs("main")
    /\ ~Truthy(config) /\ i + 1 < WaitPolls
    /\ ready' = Tail(ready)
    /\ i' = i + 1
    /\ UNCHANGED <<program, pc, now, listening, config, generated_code, session,
                   assistant, startResult, greetings, gate, gateConfig, gateCode,
                   gateAt, raised, delivered, first, seen, dropped>>
    /\ UNCHANGED <<startCalls, vaVars>>
    /\ UNCHANGED <<closed, processed, formatted>>

\* The wait ends (break, or the range is exhausted) and, with no suspension
\* in between, the session and the assistant are built and session.start is
\* called.  `fail` is the first provider constructor that raises, if any.
\* An error of get_stt_model or of DynamicAssistant leaves the entrypoint.
Assemble ==
    /\ pc = "sleeping" /\ HeadIs("main")
    /\ WaitOver
    /\ ready' = Tail(ready)
    /\ gate' = IF Truthy(config) THEN "Arrived" ELSE "TimedOut"
    /\ gateConfig' = config
    /\ gateCode' = generated_code
    /\ gateAt' = now
    /\ LET stt == get_stt_model(config)
           a   == DynamicAssistant(config, generated_code)
       IN  \E fail \in {"none", "stt", "llm", "tts", "vad"} :
             IF fail # "none"
             THEN /\ raised' = raised \cup {"entrypoint: provider " \o fail}
                  /\ pc' = "failed"
                  /\ UNCHANGED <<session, assistant, startCalls>>
             ELSE IF stt.err # ""
             THEN /\ raised' = raised \cup {"entrypoint: " \o stt.err}
                  /\ pc' = "failed"
                  /\ UNCHANGED <<session, assistant, startCalls>>
             ELSE /\ session' = Some([stt |-> stt.obj,
                                      llm |-> Some(get_llm_model(config)),
                                      tts |-> Some(get_tts_model(config)),
                                      vad |-> Some(silero_VAD_load)])
                  /\ IF a.err # ""
                     THEN /\ raised' = raised \cup {"entrypoint: " \o a.err}
                          /\ pc' = "failed"
                          /\ UNCHANGED <<assistant, startCalls>>
                     ELSE /\ assistant' = a.obj
                          /\ startCalls' = startCalls + 1
                          /\ pc' = "starting"
                          /\ UNCHANGED raised
    /\ UNCHANGED <<program, i, now, listening, config, generated_code,
                   startResult, greetings, delivered, first, seen, dropped>>
    /\ UNCHANGED vaVars
    /\ UNCHANGED <<closed, processed, formatted>>

\* session.start completes, with success or with an error.
StartReturns ==
    /\ pc = "starting" /\ ~MainQueued /\ startResult = "none"
    /\ \E r \in {"ok", "failed"} : startResult' = r
    /\ ready' = Append(ready, MainHandle)
    /\ UNCHANGED <<program, pc, i, now, listening, config, generated_code,
                   session, assistant, greetings, gate, gateConfig, gateCode,
                   gateAt, raised, delivered, first, seen, dropped>>
    /\ UNCHANGED <<startCalls, vaVars>>
    /\ UNCHANGED <<closed, processed, formatted>>

\* entrypoint after `await session.start(...)`: the greeting.
Greet ==
    /\ pc = "starting" /\ HeadIs("main")
    /\ ready' = Tail(ready)
    /\ LET greeting == get_personalized_greeting(config)
       IN  IF startResult = "failed"
           THEN /\ raised' = raised \cup {"entrypoint: session.start"}
                /\ pc' = "failed"
                /\ UNCHANGED greetings
           ELSE IF greeting.err # ""
           THEN /\ raised' = raised \cup {"entrypoint: " \o greeting.err}
                /\ pc' = "failed"
                /\ UNCHANGED greetings
           ELSE /\ greetings' = Append(greetings, The(greeting.obj))
                /\ pc' = "greeting"
                /\ UNCHANGED raised
    /\ UNCHANGED <<program, i, now, listening, config, generated_code, session,
                   assistant, startResult, gate, gateConfig, gateCode, gateAt,
                   delivered, first, seen, dropped>>
    /\ UNCHANGED <<startCalls, vaVars>>
    /\ UNCHANGED <<closed, processed, formatted>>

\* session.generate_reply completes.
ReplyReturns ==
    /\ pc = "greeting" /\ ~MainQueued
    /\ ready' = Append(ready, MainHandle)
    /\ UNCHANGED <<program, pc, i, now, listening, config, generated_code,
                   session, assistant, startResult, greetings, gate, gateConfig,
                   gateCode, gateAt, raised, delivered, first, seen, dropped>>
    /\ UNCHANGED <<startCalls, vaVars>>
    /\ UNCHANGED <<closed, processed, formatted>>

\* entrypoint returns.
Finish ==
    /\ pc = "greeting" /\ HeadIs("main")
    /\ ready' = Tail(ready)
    /\ pc' = "done"
    /\ UNCHANGED <<program, i, now, listening, config, generated_code, session,
                   assistant, startResult, greetings, gate, gateConfig, gateCode,
                   gateAt, raised, delivered, first, seen, dropped>>
    /\ UNCHANGED <<startCalls, vaVars>>
    /\ UNCHANGED <<closed, processed, formatted>>

(***************************************************************************)
(* on_data_received and handle_config_update                               *)
(***************************************************************************)
\* What on_data_received does with a packet (and, before it, a variant that
\* takes a message without a type for an agent_setup message):
\*   "caught"    decode() or json.loads() raised, the except clause logged it
\*   "escapes"   an error the except clause does not name left the handler
\*   "ignored"   a message of another type
\*   "scheduled" asyncio.create_task(handle_config_update(...))
on_data_received_any_type(p) ==
    CASE p.form \in {"badbytes", "badjson"} -> "caught"
      [] p.form = "nonmapping" -> "escapes"
      [] p.form = "message" /\ p.type = "other" -> "ignored"
      [] p.form = "message" /\ p.type = "agent_setup" /\ p.cshape = "truthy" -> "escapes"
      [] OTHER -> "scheduled"

on_data_received(p) ==
    CASE p.form \in {"badbytes", "badjson"} -> "caught"
      [] p.form = "nonmapping" -> "escapes"
      [] p.form = "message" /\ p.type # "agent_setup" -> "ignored"
      [] p.form = "message" /\ p.type = "agent_setup" /\ p.cshape = "truthy" -> "escapes"
      [] OTHER -> "scheduled"

\* The room delivers the data packet p while the entrypoint is suspended.
DeliverPacket(p) ==
    /\ program = "backend"
    /\ pc \in {"connecting", "sleeping", "starting", "greeting", "done"}
    /\ Len(delivered) < MaxEvents /\ ~closed
    /\ IF ~listening
       THEN /\ dropped' = TRUE
            /\ delivered' = Append(delivered, "dropped")
            /\ UNCHANGED <<ready, raised, first, seen>>
       ELSE /\ UNCHANGED dropped
            /\ delivered' = Append(delivered, on_data_received(p))
            /\ raised' = IF on_data_received(p) = "escapes"
                         THEN raised \cup {"on_data_received"} ELSE raised
            /\ IF on_data_received(p) = "scheduled"
               THEN /\ ready' = Append(ready, UpdateHandle(p, now))
                    /\ first' = IF IsSome(first) THEN first
                                ELSE Some([packet |-> p, at |-> now])
                    /\ seen' = seen \cup {<<now, k>> : k \in DOMAIN p.config}
               ELSE UNCHANGED <<ready, first, seen>>
    /\ UNCHANGED <<program, pc, i, now, listening, config, generated_code,
                   session, assistant, startResult, greetings, gate, gateConfig,
                   gateCode, gateAt>>
    /\ UNCHANGED <<startCalls, vaVars>>
    /\ UNCHANGED <<closed, processed, formatted>>

Deliver == \E p \in Packets : DeliverPacket(p)

\* config.update(new_config) for the shapes a scheduled task can carry.
UpdateFails(p) == p.cshape = "null"

\* A variant of handle_config_update: with a session running, the update
\* reinitializes it (new bindings, a new assistant, session.start again).
handle_config_update_reinit ==
    /\ HeadIs("update")
    /\ ready' = Tail(ready)
    /\ LET p == Head(ready).packet
       IN  IF UpdateFails(p)
           THEN /\ raised' = raised \cup {"handle_config_update"}
                /\ UNCHANGED <<config, generated_code, processed, session,
                               assistant, startCalls>>
           ELSE /\ config' = Update(config, p.config)
                /\ generated_code' = p.code
                /\ processed' = Append(processed, p)
                /\ UNCHANGED raised
                /\ IF IsSome(session) /\ IsSome(assistant)
                   THEN /\ session' = Some([The(session) EXCEPT
                                               !.stt = get_stt_model(config').obj])
                        /\ assistant' = DynamicAssistant(config', p.code).obj
                        /\ startCalls' = startCalls + 1
                   ELSE UNCHANGED <<session, assistant, startCalls>>
    /\ UNCHANGED <<program, pc, i, now, listening, startResult, greetings, gate,
                   gateConfig, gateCode, gateAt, delivered, first, seen, dropped>>
    /\ UNCHANGED vaVars
    /\ UNCHANGED <<closed, formatted>>

\* One handle_config_update task runs (it has no suspension point).
handle_config_update ==
    /\ HeadIs("update")
    /\ ready' = Tail(ready)
    /\ LET p == Head(ready).packet
       IN  IF UpdateFails(p)
           THEN /\ raised' = raised \cup {"handle_config_update"}
                /\ UNCHANGED <<config, generated_code, processed>>
           ELSE /\ config' = Update(config, p.config)
                /\ generated_code' = p.code
                /\ processed' = Append(processed, p)
                /\ UNCHANGED raised
    /\ UNCHANGED <<program, pc, i, now, listening, session, assistant,
                   startResult, greetings, gate, gateConfig, gateCode, gateAt,
                   delivered, first, seen, dropped>>
    /\ UNCHANGED <<startCalls, vaVars>>
    /\ UNCHANGED <<closed, formatted>>

\* The participant that sends the packets disconnects: the listener logs it.
\* No packet arrives from it afterwards.
on_participant_disconnected ==
    /\ program = "backend"
    /\ pc \in {"connecting", "sleeping", "starting", "greeting", "done"}
    /\ ~closed
    /\ closed' = TRUE
    /\ UNCHANGED <<program, pc, i, now, listening, ready, config, generated_code,
                   session, assistant, startResult, greetings, gate, gateConfig,
                   gateCode, gateAt, raised, delivered, first, seen, dropped,
                   startCalls, vaVars, processed, formatted>>

(***************************************************************************)
(* voice_agent.py: DynamicVoiceAgent and entrypoint                        *)
(***************************************************************************)
Absent == "<absent>"

\* A configuration section: a mapping with the keys that are present.
Section(provider, model, options) ==
    LET v == [provider |-> provider, model |-> model, config |-> options]
    IN  [k \in {x \in {"provider", "model", "config"} : v[x] # Absent} |-> v[k]]

\* A provider constructor called with (model=model, **config): the option
\* bag is handed through, and the constructor rejects the bag "badopts".
Construct(cls, model, options) ==
    IF options = "badopts" THEN Raises("TypeError: " \o cls)
    ELSE Made(Binding(cls, model, options))

\* A variant of _create_stt: the error for an unknown provider leaves its
\* name out.
_create_stt_unnamed(stt) ==
    IF "provider" \notin DOMAIN stt THEN Raises("KeyError: provider")
    ELSE IF "model" \notin DOMAIN stt THEN Raises("KeyError: model")
    ELSE IF "config" \notin DOMAIN stt THEN Raises("KeyError: config")
    ELSE IF stt.provider = "deepgram" THEN Construct("deepgram.STT", stt.model, stt.config)
    ELSE IF stt.provider = "openai" THEN Construct("openai.STT", stt.model, stt.config)
    ELSE IF stt.provider = "google" THEN Construct("google.STT", stt.model, stt.config)
    ELSE Raises("ValueError: Unsupported STT provider")

_create_stt(stt) ==
    IF "provider" \notin DOMAIN stt THEN Raises("KeyError: provider")
    ELSE IF "model" \notin DOMAIN stt THEN Raises("KeyError: model")
    ELSE IF "config" \notin DOMAIN stt THEN Raises("KeyError: config")
    ELSE IF stt.provider = "deepgram" THEN Construct("deepgram.STT", stt.model, stt.config)
    ELSE IF stt.provider = "openai" THEN Construct("openai.STT", stt.model, stt.config)
    ELSE IF stt.provider = "google" THEN Construct("google.STT", stt.model, stt.config)
    ELSE Raises("ValueError: Unsupported STT provider: " \o stt.provider)

_create_tts(tts) ==
    IF "provider" \notin DOMAIN tts THEN Raises("KeyError: provider")
    ELSE IF "model" \notin DOMAIN tts THEN Raises("KeyError: model")
    ELSE IF "config" \notin DOMAIN tts THEN Raises("KeyError: config")
    ELSE IF tts.provider = "cartesia" THEN Construct("cartesia.TTS", tts.model, tts.config)
    ELSE IF tts.provider = "openai" THEN Construct("openai.TTS", tts.model, tts.config)
    ELSE IF tts.provider = "google" THEN Construct("google.TTS", tts.model, tts.config)
    ELSE IF tts.provider = "elevenlabs"
         THEN Raises("ValueError: ElevenLabs TTS not implemented yet")
    ELSE Raises("ValueError: Unsupported TTS provider: " \o tts.provider)

_create_llm(llm) ==
    IF "provider" \notin DOMAIN llm THEN Raises("KeyError: provider")
    ELSE IF "model" \notin DOMAIN llm THEN Raises("KeyError: model")
    ELSE IF "config" \notin DOMAIN llm THEN Raises("KeyError: config")
    ELSE IF llm.provider = "openai" THEN Construct("openai.LLM", llm.model, llm.config)
    ELSE IF llm.provider = "google" THEN Construct("google.LLM", llm.model, llm.config)
    ELSE IF llm.provider = "anthropic"
         THEN Raises("ValueError: Anthropic LLM not implemented yet")
    ELSE Raises("ValueError: Unsupported LLM provider: " \o llm.provider)

\* A variant of _create_vad: an unknown provider yields None instead of an
\* error.
_create_vad_returns_none(vad) ==
    IF "provider" \notin DOMAIN vad THEN Raises("KeyError: provider")
    ELSE IF "config" \notin DOMAIN vad THEN Raises("KeyError: config")
    ELSE IF vad.provider = "silero" THEN Construct("silero.VAD", None, vad.config)
    ELSE [err |-> "", obj |-> NoObject]

_create_vad(vad) ==
    IF "provider" \notin DOMAIN vad THEN Raises("KeyError: provider")
    ELSE IF "config" \notin DOMAIN vad THEN Raises("KeyError: config")
    ELSE IF vad.provider = "silero" THEN Construct("silero.VAD", None, vad.config)
    ELSE Raises("ValueError: Unsupported VAD provider: " \o vad.provider)

\* The capabilities in the order entrypoint creates them.
Capabilities == <<"stt", "tts", "llm", "vad">>

Create(cap, section) ==
    CASE cap = "stt" -> _create_stt(section)
      [] cap = "tts" -> _create_tts(section)
      [] cap = "llm" -> _create_llm(section)
      [] cap = "vad" -> _create_vad(section)

\* The sections of the model: every provider name with a complete section,
\* a section whose options the constructor rejects, and a section with one
\* of its keys left out.
SectionsOf(names) ==
    {Section(n, "m1", "opts") : n \in names}
    \cup {Section(CHOOSE n \in names : TRUE, m, c) :
            <<m, c>> \in {<<"m1", "badopts">>, <<Absent, "opts">>, <<"m1", Absent>>}}
    \cup {Section(Absent, "m1", "opts")}

Sections ==
    [stt |-> SectionsOf({"deepgram", "openai", "google", "azure"}),
     tts |-> SectionsOf({"cartesia", "openai", "google", "elevenlabs", "azure"}),
     llm |-> SectionsOf({"openai", "google", "anthropic", "azure"}),
     vad |-> SectionsOf({"silero", "webrtc"})]

AgentConfigurations ==
    [stt : Sections.stt, tts : Sections.tts, llm : Sections.llm,
     vad : Sections.vad, env_ok : BOOLEAN]

\* The results of the _create_* calls, made in order up to the first that raises.
RECURSIVE CreateAll(_, _, _)
CreateAll(cfg, k, made) ==
    IF k > Len(Capabilities) THEN made
    ELSE LET cap == Capabilities[k]
             r   == Create(cap, cfg[cap])
         IN  IF r.err # "" THEN [made EXCEPT ![cap] = Some(r)]
             ELSE CreateAll(cfg, k + 1, [made EXCEPT ![cap] = Some(r)])

FirstError(made) ==
    {The(made[c]).err : c \in {x \in DOMAIN made : IsSome(made[x]) /\ The(made[x]).err # ""}}

\* entrypoint up to `await ctx.connect(...)`: the configuration is loaded
\* (or not), the environment validated and the four components created.
VAStart ==
    /\ program = "voice" /\ vaPc = "init"
    /\ \/ /\ vaPc' = "done"          \* no configuration id, or load_config returned None
          /\ UNCHANGED <<vaConfig, vaMade, raised>>
       \/ \E cfg \in AgentConfigurations :
            /\ vaConfig' = Some(cfg)
            /\ IF ~cfg.env_ok
               THEN /\ raised' = raised \cup {"entrypoint: ValueError: Missing required environment variables"}
                    /\ vaPc' = "failed"
                    /\ UNCHANGED vaMade
               ELSE /\ vaMade' = CreateAll(cfg, 1, NothingMade)
                    /\ raised' = raised \cup {"entrypoint: " \o e : e \in FirstError(vaMade')}
                    /\ vaPc' = IF FirstError(vaMade') = {} THEN "connecting" ELSE "failed"
    /\ UNCHANGED <<program, session, startResult, greetings, startCalls, backendVars>>
    /\ UNCHANGED formatted

\* ctx.connect returns; the session is built from the four components,
\* `session.start(ctx.room)` is called and session.generate_reply is awaited.
\* The coroutine that session.start returns is not awaited, so it never
\* runs: session.start has no outcome.
VAGreet ==
    /\ program = "voice" /\ vaPc = "connecting"
    /\ session' = Some([c \in DOMAIN vaMade |-> The(vaMade[c]).obj])
    /\ startCalls' = startCalls + 1
    /\ greetings' = Append(greetings, "Hello! I'm <name>. <description>")
    /\ vaPc' = "greeting"
    /\ UNCHANGED <<program, startResult, raised, vaConfig, vaMade, backendVars>>
    /\ UNCHANGED formatted

\* session.generate_reply returns and so does entrypoint.
VAFinish ==
    /\ program = "voice" /\ vaPc = "greeting"
    /\ vaPc' = "done"
    /\ UNCHANGED <<program, session, startResult, greetings, raised, startCalls,
                   vaConfig, vaMade, backendVars>>
    /\ UNCHANGED formatted

(***************************************************************************)
(* DynamicAssistant, get_personalized_greeting and get_stt_model applied   *)
(* to one configuration and one code blob, as entrypoint applies them:     *)
(* the session's STT, the assistant, then the greeting.                    *)
(***************************************************************************)
\* The key is not in the mapping.
Missing == [kind |-> "missing", val |-> 0]

\* Names for the items of a capabilities list.
CapabilityNames ==
    <<"billing", "returns", "orders", "refunds", "shipping", "support">>

\* The values of the model for each recognized key, and for the keys
\* "theme" and "voice", which no function reads.
KeyValues ==
    [prompt        |-> {Missing, Text("X")},
     personality   |-> {Missing, Text("witty"), Text("grumpy"), List(<<Text("witty")>>)},
     capabilities  |-> {Missing, List(<<>>), Number(5), List(<<Number(1)>>)}
                       \cup {List([k \in 1..n |-> Text(CapabilityNames[k])]) :
                               n \in 1..MaxCapabilities},
     language      |-> {Missing, Text("english"), Text("spanish"), Number(5)},
     responseStyle |-> {Missing, Text("concise"), Text("odd")},
     theme         |-> {Missing, Text("dark")}]

UnknownKeys == {"theme", "voice"}

\* The mapping with the keys that are present.
Mapping(f) == [k \in {x \in DOMAIN f : f[x] # Missing} |-> f[k]]

Configs ==
    {Mapping(f) : f \in [prompt : KeyValues.prompt, personality : KeyValues.personality,
                         capabilities : KeyValues.capabilities,
                         language : KeyValues.language,
                         responseStyle : KeyValues.responseStyle,
                         theme : KeyValues.theme]}

Codes == Blobs \cup {None, ""}

FnInit ==
    /\ program = "functions"
    /\ pc = "init"
    /\ i = 0
    /\ now = 0
    /\ listening = FALSE
    /\ ready = <<>>
    /\ config \in Configs
    /\ generated_code \in Codes
    /\ session = NoObject
    /\ assistant = NoObject
    /\ startResult = "none"
    /\ greetings = <<>>
    /\ gate = "pending"
    /\ gateConfig = EmptyConfig
    /\ gateCode = None
    /\ gateAt = 0
    /\ raised = {}
    /\ delivered = <<>>
    /\ first = NoObject
    /\ seen = {}
    /\ dropped = FALSE
    /\ startCalls = 0
    /\ vaPc = "init"
    /\ vaConfig = NoObject
    /\ vaMade = NothingMade
    /\ closed = FALSE
    /\ processed = <<>>
    /\ formatted = NoObject

\* stt=get_stt_model(config)
FnSTT ==
    /\ program = "functions" /\ pc = "init"
    /\ LET stt == get_stt_model(config)
       IN  /\ session' = IF stt.err = "" THEN Some([stt |-> stt.obj]) ELSE session
           /\ raised' = IF stt.err = "" THEN raised
                        ELSE raised \cup {"get_stt_model: " \o stt.err}
    /\ pc' = "session"
    /\ UNCHANGED <<program, i, now, listening, ready, config, generated_code,
                   assistant, startResult, greetings, gate, gateConfig, gateCode,
                   gateAt, delivered, first, seen, dropped, startCalls, vaVars>>
    /\ UNCHANGED <<closed, processed, formatted>>

\* assistant = DynamicAssistant(config, generated_code)
FnAssistant ==
    /\ program = "functions" /\ pc = "session"
    /\ LET a == DynamicAssistant(config, generated_code)
       IN  /\ assistant' = a.obj
           /\ raised' = IF a.err = "" THEN raised
                        ELSE raised \cup {"DynamicAssistant: " \o a.err}
    /\ pc' = "assistant"
    /\ UNCHANGED <<program, i, now, listening, ready, config, generated_code,
                   session, startResult, greetings, gate, gateConfig, gateCode,
                   gateAt, delivered, first, seen, dropped, startCalls, vaVars>>
    /\ UNCHANGED <<closed, processed, formatted>>

\* greeting = get_personalized_greeting(config)
FnGreeting ==
    /\ program = "functions" /\ pc = "assistant"
    /\ LET greeting == get_personalized_greeting(config)
       IN  /\ greetings' = IF greeting.err = "" THEN <<The(greeting.obj)>> ELSE greetings
           /\ raised' = IF greeting.err = "" THEN raised
                        ELSE raised \cup {"get_personalized_greeting: " \o greeting.err}
    /\ pc' = "greeted"
    /\ UNCHANGED <<program, i, now, listening, ready, config, generated_code,
                   session, assistant, startResult, gate, gateConfig, gateCode,
                   gateAt, delivered, first, seen, dropped, startCalls, vaVars>>
    /\ UNCHANGED <<closed, processed, formatted>>

FnNext == FnSTT \/ FnAssistant \/ FnGreeting

FnSpec == FnInit /\ [][FnNext]_vars

(***************************************************************************)
(* user-projects/utils/helpers.py: format_response applied to the texts    *)
(* of the model and every max_length up to MaxLength.                      *)
(***************************************************************************)
\* str.find(sep) + 1: the place of the first occurrence of sep, or 0
IndexOf(s, sep) ==
    LET hits == {k \in 1..(Len(s) - Len(sep) + 1) : SubSeq(s, k, k + Len(sep) - 1) = sep}
    IN  IF hits = {} THEN 0 ELSE CHOOSE k \in hits : \A j \in hits : k <= j

\* str.split(sep)
RECURSIVE split(_, _)
split(s, sep) ==
    LET k == IndexOf(s, sep)
    IN  IF k = 0 THEN <<s>>
        ELSE <<SubSeq(s, 1, k - 1)>> \o split(SubSeq(s, k + Len(sep), Len(s)), sep)

\* str.strip() for texts whose only whitespace is the space
RECURSIVE strip(_)
strip(s) ==
    IF Len(s) > 0 /\ SubSeq(s, 1, 1) = " " THEN strip(SubSeq(s, 2, Len(s)))
    ELSE IF Len(s) > 0 /\ SubSeq(s, Len(s), Len(s)) = " "
    THEN strip(SubSeq(s, 1, Len(s) - 1))
    ELSE s

\* text[:n] for n >= 0
Slice(text, n) == IF n >= Len(text) THEN text ELSE SubSeq(text, 1, n)

\* The loop over the sentences, from sentence k on, with `result` so far.
RECURSIVE FitSentences(_, _, _, _)
FitSentences(sentences, k, result, max_length) ==
    IF k > Len(sentences) THEN result
    ELSE IF Len(result \o sentences[k] \o ". ") <= max_length
    THEN FitSentences(sentences, k + 1, result \o sentences[k] \o ". ", max_length)
    ELSE result

format_response(text, max_length) ==
    IF Len(text) <= max_length THEN text
    ELSE LET result == FitSentences(split(text, ". "), 1, "", max_length)
         IN  IF strip(result) # "" THEN strip(result)
             ELSE strip(Slice(text, max_length)) \o "..."

\* The texts of the model: no sentence end, one, several, a long first
\* sentence, a text that ends with a sentence end.
ResponseTexts ==
    {"", "Hello", "Hello world", "Hi. Bye", "Hi. Bye.", "Hi. Bye. See you.",
     "A. B. C. D", "Good morning. Hi", "Ok. ", "One. Two. "}

FormatInit ==
    /\ program = "format"
    /\ pc = "init"
    /\ i = 0
    /\ now = 0
    /\ listening = FALSE
    /\ ready = <<>>
    /\ config = EmptyConfig
    /\ generated_code = None
    /\ session = NoObject
    /\ assistant = NoObject
    /\ startResult = "none"
    /\ greetings = <<>>
    /\ gate = "pending"
    /\ gateConfig = EmptyConfig
    /\ gateCode = None
    /\ gateAt = 0
    /\ raised = {}
    /\ delivered = <<>>
    /\ first = NoObject
    /\ seen = {}
    /\ dropped = FALSE
    /\ startCalls = 0
    /\ vaPc = "init"
    /\ vaConfig = NoObject
    /\ vaMade = NothingMade
    /\ closed = FALSE
    /\ processed = <<>>
    /\ \E text \in ResponseTexts, max_length \in 0..MaxLength :
          formatted = Some([text |-> text, max_length |-> max_length,
                            result |-> NoObject])

\* format_response(text, max_length)
FormatResponse ==
    /\ program = "format"
    /\ IsSome(formatted) /\ ~IsSome(The(formatted).result)
    /\ formatted' = Some([The(formatted) EXCEPT
                            !.result = Some(format_response(The(formatted).text,
                                                            The(formatted).max_length))])
    /\ UNCHANGED <<program, pc, i, now, listening, ready, config, generated_code,
                   session, assistant, startResult, greetings, gate, gateConfig,
                   gateCode, gateAt, raised, delivered, first, seen, dropped,
                   startCalls, vaVars, closed, processed>>

FormatNext == FormatResponse

FormatSpec == FormatInit /\ [][FormatNext]_vars

Next ==
    \/ Start \/ ConnectReturns \/ EnterWait \/ TimerFires \/ PollAgain
    \/ Assemble \/ StartReturns \/ Greet \/ ReplyReturns \/ Finish
    \/ Deliver \/ handle_config_update \/ on_participant_disconnected
    \/ VAStart \/ VAGreet \/ VAFinish

Spec == Init /\ [][Next]_vars

\* Spec with the event loop running what is ready, timers expiring and
\* ctx.connect returning.
LiveSpec ==
    /\ Spec
    /\ WF_vars(Start) /\ WF_vars(ConnectReturns) /\ WF_vars(EnterWait)
    /\ WF_vars(TimerFires) /\ WF_vars(PollAgain) /\ WF_vars(Assemble)
    /\ WF_vars(handle_config_update)

TypeOK ==
    /\ program \in {"backend", "voice"}
    /\ pc \in {"init", "connecting", "sleeping", "starting", "greeting", "done", "failed"}
    /\ vaPc \in {"init", "connecting", "greeting", "done", "failed"}
    /\ i \in 0..(WaitPolls - 1)
    /\ now \in 0..WaitPolls
    /\ Len(ready) <= MaxEvents + 1
    /\ gate \in {"pending", "Arrived", "TimedOut"}
    /\ startResult \in {"none", "ok", "failed"}

(***************************************************************************)
(* The claims.                                                             *)
(***************************************************************************)
UpdatesQueued == {ready[k] : k \in {x \in 1..Len(ready) : ready[x].h = "update"}}

\* C1: once the wait has ended, everything the session is given is derived
\* from the configuration and the code blob the wait ended with: the
\* provider bindings, the assistant's instructions and every greeting; a
\* later agent_setup message changes none of them.
C1_SessionUsesGateResult ==
    gate # "pending" =>
        /\ IsSome(session) =>
              /\ The(session).stt = get_stt_model(gateConfig).obj
              /\ The(session).llm = Some(get_llm_model(gateConfig))
              /\ The(session).tts = Some(get_tts_model(gateConfig))
        /\ IsSome(assistant) =>
              The(assistant).instructions
                  = The(DynamicAssistant(gateConfig, gateCode).obj).instructions
        /\ \A k \in 1..Len(greetings) :
              greetings[k] = The(get_personalized_greeting(gateConfig).obj)

\* C2: the wait ends TimedOut, after all WaitPolls polls, when no agent_setup
\* message was accepted before the timeout, and otherwise ends Arrived at the
\* first poll after the first accepted agent_setup message, whatever the
\* config field of that message is.
C2_GateFollowsFirstSetup ==
    gate # "pending" =>
        IF IsSome(first) /\ The(first).at < WaitPolls
        THEN gate = "Arrived" /\ gateAt = The(first).at + 1
        ELSE gate = "TimedOut" /\ gateAt = WaitPolls

\* C3: no error leaves on_data_received, and the update scheduled for a
\* malformed packet changes neither the configuration nor the code blob.
C3_MalformedPacketsAreInert ==
    [][/\ "on_data_received" \notin raised'
       /\ (HeadIs("update") /\ Malformed(Head(ready).packet) /\ ready' = Tail(ready))
            => (config' = config /\ generated_code' = generated_code)]_vars

\* C4: when a well-formed agent_setup message was accepted before the wait
\* ended, the configuration and the code blob the session is assembled from
\* are exactly those of the first such message.
C4_FirstSetupWins ==
    (gate # "pending" /\ IsSome(first) /\ The(first).at < gateAt
        /\ WellFormedSetup(The(first).packet)) =>
        /\ gateConfig = The(first).packet.config
        /\ gateCode = The(first).packet.code

\* C5: when the wait timed out, the session is assembled from the empty
\* configuration and no code blob is executed.
C5_TimedOutRunsNoCode ==
    gate = "TimedOut" =>
        /\ gateConfig = EmptyConfig
        /\ IsSome(assistant) =>
              /\ The(assistant).instructions = The(_build_instructions(EmptyConfig).obj)
              /\ ~The(assistant).executed

\* C6: the data_received listener is registered before the connection is
\* requested, no packet finds the room without a listener, and every
\* agent_setup message accepted before the last poll of the wait expired
\* has been applied when the session is assembled: its update is no longer
\* queued and the keys of its config are keys of the configuration the
\* session is assembled from.
C6_NoSetupIsMissed ==
    /\ pc # "init" => listening
    /\ ~dropped
    /\ gate # "pending" =>
          /\ \A u \in UpdatesQueued : u.at >= gateAt
          /\ \A e \in seen : e[1] < gateAt => e[2] \in DOMAIN gateConfig

\* An agent_setup message accepted while connecting or during the first poll
\* is what the wait ended with at the first poll.
C6_Witness ==
    /\ gate = "Arrived" /\ gateAt = 1
    /\ \E e \in seen : e[1] = 0 /\ e[2] \in DOMAIN gateConfig
    /\ IsSome(session)

\* C7: session.generate_reply is called at most once, and only after
\* session.start has returned with success.
C7_GreetOnceAfterStart ==
    /\ Len(greetings) <= 1
    /\ Len(greetings) > 0 => startResult = "ok"

\* A provider binding could not be created.
ProviderFailed ==
    \/ FirstError(vaMade) # {}
    \/ \E c \in {"stt", "llm", "tts", "vad"} : ("entrypoint: provider " \o c) \in raised

\* C8: session.start is called only with all four bindings created, and
\* when the creation of a binding failed no session is started, nothing is
\* greeted and the error has left the entrypoint.
C8_NoHalfConfiguredSession ==
    /\ startCalls > 0 =>
          /\ IsSome(session)
          /\ \A c \in {"stt", "tts", "llm", "vad"} : IsSome(The(session)[c])
    /\ ProviderFailed =>
          /\ startCalls = 0 /\ ~IsSome(session) /\ greetings = <<>>
          /\ startResult = "none"
          /\ IF program = "voice"
             THEN vaPc = "failed"
                  /\ {"entrypoint: " \o e : e \in FirstError(vaMade)} \subseteq raised
             ELSE pc = "failed"

\* Three bindings were created, the fourth failed, and the entrypoint failed.
C8_Witness ==
    /\ program = "voice" /\ vaPc = "failed"
    /\ IsSome(vaMade.stt) /\ IsSome(vaMade.tts) /\ IsSome(vaMade.llm)
    /\ IsSome(vaMade.vad)
    /\ The(vaMade.vad).err = "ValueError: Unsupported VAD provider: webrtc"
    /\ startCalls = 0

\* The provider names each _create_* gives a constructor, with its class.
Registry ==
    [stt |-> [deepgram |-> "deepgram.STT", openai |-> "openai.STT", google |-> "google.STT"],
     tts |-> [cartesia |-> "cartesia.TTS", openai |-> "openai.TTS", google |-> "google.TTS"],
     llm |-> [openai |-> "openai.LLM", google |-> "google.LLM"],
     vad |-> [silero |-> "silero.VAD"]]

CapName == [stt |-> "STT", tts |-> "TTS", llm |-> "LLM", vad |-> "VAD"]

\* The names a _create_* knows but has no constructor for, with the error.
NotImplemented ==
    [stt |-> [k \in {} |-> ""],
     tts |-> [elevenlabs |-> "ValueError: ElevenLabs TTS not implemented yet"],
     llm |-> [anthropic |-> "ValueError: Anthropic LLM not implemented yet"],
     vad |-> [k \in {} |-> ""]]

\* A section that carries every key its _create_* reads, with options the
\* constructor accepts.
Complete(cap, sec) ==
    /\ "provider" \in DOMAIN sec /\ "config" \in DOMAIN sec
    /\ cap # "vad" => "model" \in DOMAIN sec
    /\ sec.config # "badopts"

\* The _create_* calls made so far, each with its section and its result.
Resolved ==
    {[cap |-> c, sec |-> The(vaConfig)[c], r |-> The(vaMade[c])] :
        c \in {x \in {"stt", "tts", "llm", "vad"} : IsSome(vaConfig) /\ IsSome(vaMade[x])}}

DefaultBinding ==
    [stt |-> Binding("deepgram.STT", "nova-3", "multi"),
     llm |-> get_llm_model(EmptyConfig),
     tts |-> get_tts_model(EmptyConfig),
     vad |-> silero_VAD_load]

\* C10: a section that leaves out its provider or its model resolves,
\* without an error, to the default binding of its capability.
C10_OmittedFallsBackToDefault ==
    \A x \in Resolved :
        ("provider" \notin DOMAIN x.sec \/ "model" \notin DOMAIN x.sec) =>
            /\ x.r.err = ""
            /\ x.r.obj = Some(DefaultBinding[x.cap])

(***************************************************************************)
(* The claims about DynamicAssistant, get_personalized_greeting and        *)
(* get_stt_model, stated of FnSpec.                                        *)
(***************************************************************************)
\* DynamicAssistant(config, generated_code) has been called.
Constructed == program = "functions" /\ pc \in {"assistant", "greeted"}

\* get_personalized_greeting(config) has been called.
Greeted == program = "functions" /\ pc = "greeted"

\* s contains sub / s starts with sub
Contains(s, sub) ==
    \E k \in 1..(Len(s) - Len(sub) + 1) : SubSeq(s, k, k + Len(sub) - 1) = sub
StartsWith(s, sub) == Len(sub) <= Len(s) /\ SubSeq(s, 1, Len(sub)) = sub

\* What _execute_generated_code makes of the code blob of this state.
Descriptor ==
    IF CodeTruthy(generated_code) THEN _execute_generated_code(generated_code, config)
    ELSE Loaded("", NoObject, <<>>)

\* C11: for a configuration the synthesizer accepts and any code blob,
\* constructing the assistant completes without an error; an absent, empty
\* or invalid blob and a blob that defines nothing recognized give no
\* custom assistant.
C11_LoaderNeverRaises ==
    (Constructed /\ _build_instructions(config).err = "") =>
        /\ IsSome(assistant)
        /\ generated_code \in {None, "", BlobSyntax, BlobNothing}
              => ~The(assistant).custom

\* C12: when the loader yields a custom assistant with instructions, the
\* assistant is constructed with exactly those instructions and
\* _build_instructions is not evaluated (so an error of it cannot surface);
\* when the loader yields None, the instructions are what
\* _build_instructions returns for the configuration.
C12_FallbackLadder ==
    (Constructed /\ Descriptor.err = "") =>
        IF IsSome(Descriptor.custom)
        THEN IsSome(The(Descriptor.custom).instructions) =>
                /\ IsSome(assistant)
                /\ The(assistant).instructions = The(The(Descriptor.custom).instructions)
                /\ The(assistant).built = 0
        ELSE _build_instructions(config).err = "" =>
                /\ IsSome(assistant)
                /\ The(assistant).instructions = The(_build_instructions(config).obj)

\* C13: for every configuration, building the instructions (no code blob)
\* and building the greeting both return a text and raise nothing.
C13_SynthesizerIsTotal ==
    /\ (Constructed /\ ~CodeTruthy(generated_code)) => IsSome(assistant)
    /\ Greeted => Len(greetings) = 1

\* The personality (the response style) of the configuration is absent or
\* is none of the entries of the table.
NoPersonality == ~InTable(Get(config, "personality", Missing), personality_map)
NoResponseStyle == ~InTable(Get(config, "responseStyle", Missing), style_map)

\* C14: for a non-empty configuration whose personality is absent or
\* unrecognized the synthesized instructions contain the friendly clause and
\* the greeting starts with the friendly greeting; when its responseStyle is
\* absent or unrecognized the instructions contain the conversational clause.
C14_EnumDefaults ==
    /\ (Constructed /\ IsSome(assistant) /\ ~The(assistant).custom /\ Truthy(config)) =>
          /\ NoPersonality =>
                Contains(The(assistant).instructions,
                         "Be warm, approachable, and encouraging in your responses.")
          /\ NoResponseStyle =>
                Contains(The(assistant).instructions,
                         "Use natural, flowing conversation style.")
    /\ (Greeted /\ Len(greetings) = 1 /\ NoPersonality) =>
          StartsWith(greetings[1],
                     "Hello! I'm your friendly AI assistant. How can I help you today?")

\* The clauses a personality (a response style) can contribute, and none.
PersonalityClauses ==
    {""} \cup {"Personality: " \o personality_map[k] : k \in DOMAIN personality_map}
StyleClauses ==
    {""} \cup {"Response Style: " \o style_map[k] : k \in DOMAIN style_map}

\* The parts of C15 for a configuration, given its personality clause p and
\* its response-style clause s: the non-empty ones, in order.
NonEmpty(parts) == SelectSeq(parts, LAMBDA x : x # "")
PartsInOrder(cfg, p, s) ==
    NonEmpty(<< IF "prompt" \in DOMAIN cfg
                THEN "Core Instructions: " \o cfg.prompt.val ELSE "",
                p,
                IF "capabilities" \in DOMAIN cfg /\ Len(cfg.capabilities.val) > 0
                THEN "Your main capabilities include: "
                        \o Join(Texts(cfg.capabilities.val), ", ")
                ELSE "",
                s,
                IF "language" \in DOMAIN cfg /\ cfg.language.val # "english"
                THEN "Respond primarily in " \o Title(cfg.language.val) \o "."
                ELSE "" >>)

\* C15: the synthesized instructions are the parts joined by single spaces,
\* in the order prompt, personality clause, capabilities clause,
\* response-style clause, language directive; the prompt part is there when
\* a prompt is, the capabilities part when the list is non-empty, the
\* language directive when the language is not "english".  (Which clause a
\* personality or a style contributes is C14; no part at all is C16.)
C15_PartsInFixedOrder ==
    (Constructed /\ IsSome(assistant) /\ ~The(assistant).custom) =>
        \E p \in PersonalityClauses, s \in StyleClauses :
            \/ The(assistant).instructions = Join(PartsInOrder(config, p, s), " ")
            \/ /\ PartsInOrder(config, p, s) = <<>>
               /\ The(assistant).instructions = "You are a helpful voice AI assistant."

\* All five parts are synthesized, in order.
C15_Witness ==
    /\ Constructed /\ IsSome(assistant)
    /\ DOMAIN config = {"prompt", "personality", "capabilities", "language", "responseStyle"}
    /\ The(assistant).instructions =
         "Core Instructions: X Personality: Be clever and humorous, using appropriate jokes and wordplay. Your main capabilities include: billing, returns Response Style: Keep responses brief and to the point. Respond primarily in Spanish."

\* The marks that open the five parts.
PartMarks ==
    {"Core Instructions: ", "Personality: ", "Your main capabilities include: ",
     "Response Style: ", "Respond primarily in "}

\* C16: for the empty configuration the instructions are the literal and
\* the greeting is the friendly greeting with nothing appended; and the
\* synthesized instructions are the literal exactly when they hold none of
\* the five parts.
C16_LiteralFallback ==
    /\ (Constructed /\ config = EmptyConfig /\ ~CodeTruthy(generated_code)) =>
          /\ IsSome(assistant)
          /\ The(assistant).instructions = "You are a helpful voice AI assistant."
    /\ (Greeted /\ config = EmptyConfig) =>
          greetings = <<"Hello! I'm your friendly AI assistant. How can I help you today?">>
    /\ (Constructed /\ IsSome(assistant) /\ ~The(assistant).custom) =>
          (The(assistant).instructions = "You are a helpful voice AI assistant."
             <=> \A m \in PartMarks : ~Contains(The(assistant).instructions, m))

\* The empty configuration was synthesized and greeted, and so was a
\* non-empty configuration that yields no part.
C16_Witness ==
    /\ Greeted /\ IsSome(assistant) /\ ~The(assistant).custom
    /\ The(assistant).instructions = "You are a helpful voice AI assistant."
    /\ config = [personality |-> Text("grumpy"), responseStyle |-> Text("odd")]

\* The greeting of a personality: its entry, or the friendly one.
BaseGreeting(cfg) ==
    IF InTable(Get(cfg, "personality", Missing), greetings_map)
    THEN greetings_map[cfg.personality.val] ELSE greetings_map["friendly"]

\* The names of the configured capabilities (none when the key is absent).
CapabilityList(cfg) ==
    IF "capabilities" \in DOMAIN cfg THEN Texts(cfg.capabilities.val) ELSE <<>>

\* C17: the greeting is the personality's greeting followed by nothing for
\* no capability, by the clause that lists the names joined by ", " for one
\* to three capabilities, and by the generic clause, which names none of
\* them, for more than three.
C17_GreetingByCount ==
    (Greeted /\ Len(greetings) = 1) =>
        LET names == CapabilityList(config)
            base  == BaseGreeting(config)
        IN  /\ Len(names) = 0 => greetings[1] = base
            /\ Len(names) \in 1..3 =>
                  greetings[1] = base \o " I can help you with "
                                   \o Join(names, ", ") \o "."
            /\ Len(names) > 3 =>
                  /\ greetings[1] = base \o " I have various capabilities to assist you with different tasks."
                  /\ \A k \in 1..Len(names) : ~Contains(greetings[1], names[k])

\* A greeting was made for more than three capabilities.
C17_Witness ==
    /\ Greeted /\ Len(greetings) = 1
    /\ Len(CapabilityList(config)) > 3
    /\ Contains(greetings[1], "various capabilities")

\* The configuration with the key k added.
WithKey(cfg, k) == Update(cfg, [x \in {k} |-> Text("dark")])

\* C18: adding a key that is not a recognized key changes neither the
\* synthesized instructions, nor the greeting, nor the STT binding.
C18_UnknownKeysIgnored ==
    \A k \in UnknownKeys \ DOMAIN config :
        /\ (Constructed /\ IsSome(assistant) /\ ~The(assistant).custom) =>
              _build_instructions(WithKey(config, k)) = Made(The(assistant).instructions)
        /\ (Greeted /\ Len(greetings) = 1) =>
              get_personalized_greeting(WithKey(config, k)) = Made(greetings[1])
        /\ (program = "functions" /\ IsSome(session)) =>
              get_stt_model(WithKey(config, k)).obj = The(session).stt

\* C19: with the blob evaluated, the first class that extends Agent is
\* instantiated, with the configuration exactly when its constructor has a
\* config parameter, and get_instructions is not called; with no such class
\* get_instructions(config) is called if defined and its text becomes the
\* custom assistant's instructions; with neither there is no custom
\* assistant and nothing is called.
C19_ClassBeforeFunction ==
    (Constructed /\ IsSome(assistant) /\ The(assistant).executed
        /\ exec(generated_code).raises = "") =>
        LET locals == exec(generated_code)
            a      == The(assistant)
        IN  IF Len(locals.classes) > 0
            THEN a.calls = << locals.classes[1].name
                              \o (IF locals.classes[1].param THEN "(config)" ELSE "()") >>
            ELSE IF IsSome(locals.fn)
            THEN /\ a.calls = <<"get_instructions(config)">>
                 /\ The(locals.fn).raises = "" =>
                       a.custom /\ a.instructions = The(locals.fn).returns
            ELSE ~a.custom /\ a.calls = <<>>

(***************************************************************************)
(* Claims about on_data_received, stated of Spec.                          *)
(***************************************************************************)
\* C20: delivering a message whose type is not agent_setup (or is missing)
\* changes neither the configuration, the code blob, the outcome of the
\* wait nor the session, schedules no update and raises nothing.
C20_OtherTypesIgnored ==
    [][\A p \in Packets :
         (p.form = "message" /\ p.type # "agent_setup" /\ DeliverPacket(p)) =>
            UNCHANGED <<config, generated_code, gate, gateConfig, gateCode,
                        session, assistant, ready, raised, first, seen>>]_vars

\* A message of another type was delivered to the listener during the wait.
C20_Witness ==
    /\ pc = "sleeping" /\ listening
    /\ \E k \in 1..Len(delivered) : delivered[k] = "ignored"

\* The step is one handle_config_update task, or on_data_received with an
\* agent_setup message.
SetupStep ==
    \/ HeadIs("update") /\ ready' = Tail(ready)
    \/ \E p \in Packets : p.type = "agent_setup" /\ DeliverPacket(p)

\* C21: once session.start has been called, an agent_setup message and its
\* update change the configuration and the code blob only: session.start is
\* not called again, the bindings and the assistant stay as they are, and
\* no greeting is added; there is never a second session or greeting.
C21_LateSetupIsInert ==
    /\ [](startCalls <= 1 /\ Len(greetings) <= 1)
    /\ [][(program = "backend" /\ startCalls > 0 /\ SetupStep) =>
            UNCHANGED <<session, assistant, startCalls, startResult, greetings,
                        gate, gateConfig, gateCode, gateAt, pc>>]_vars

\* An update was applied after session.start was called, and the entrypoint
\* greeted once and returned.
C21_Witness ==
    /\ program = "backend" /\ pc = "done"
    /\ startCalls = 1 /\ Len(greetings) = 1
    /\ Len(processed) > 0 /\ config # gateConfig

\* C22: once the sending participant has disconnected, the wait that has
\* not ended does not go into another poll.
C22_CloseEndsWait ==
    [][(closed /\ gate = "pending" /\ pc = "sleeping") => i' = i]_vars

\* The places of the packets of a sequence whose config has the key k.
Carriers(packets, k) == {j \in 1..Len(packets) : k \in DOMAIN packets[j].config}

\* The key-wise merge of the configs of a sequence of packets: each key has
\* the value of the last packet that carries it.
Merged(packets) ==
    [k \in UNION {DOMAIN packets[j].config : j \in 1..Len(packets)} |->
        LET last == CHOOSE j \in Carriers(packets, k) :
                        \A m \in Carriers(packets, k) : m <= j
        IN  packets[last].config[k]]

\* C23: the configuration is the key-wise merge of the configs of the
\* agent_setup messages processed so far, later over earlier, and the code
\* blob is the generatedCode of the last one processed (None for a message
\* without one); the updates still queued are in arrival order.
C23_MergeInArrivalOrder ==
    program = "backend" =>
        /\ config = Merged(processed)
        /\ generated_code = IF Len(processed) = 0 THEN None
                            ELSE processed[Len(processed)].code
        /\ \A a, b \in 1..Len(ready) :
              (a < b /\ ready[a].h = "update" /\ ready[b].h = "update")
                  => ready[a].at <= ready[b].at

\* A message with a code blob and then a message without one were
\* processed: the configuration has the keys of both and the blob is gone.
C23_Witness ==
    /\ Len(processed) = 2
    /\ processed[1].code = BlobClass /\ processed[2].code = None
    /\ processed[1].config = ConfigA /\ processed[2].config = ConfigB
    /\ config = [personality |-> Text("casual"), language |-> Text("spanish")]
    /\ generated_code = None

\* C24: the wait loop runs at most WaitPolls one-unit polls, and the
\* entrypoint eventually leaves it and assembles the session, whatever
\* packets arrive.
C24_WaitTerminates ==
    /\ [](i < WaitPolls /\ (gate = "pending" => now <= WaitPolls))
    /\ [](gate # "pending" => gateAt <= WaitPolls)
    /\ (program = "backend") ~> (gate # "pending")

\* The wait ended after all its polls although MaxEvents packets arrived
\* during it, none of them an agent_setup message that was accepted.
C24_Witness ==
    /\ gate = "TimedOut" /\ gateAt = WaitPolls
    /\ Len(delivered) = MaxEvents
    /\ \A k \in 1..Len(delivered) : delivered[k] \in {"caught", "escapes", "ignored"}

(***************************************************************************)
(* The claim about format_response, stated of FormatSpec.                  *)
(***************************************************************************)
\* The text up to the end of its k-th sentence, the "." included and the
\* space after it left out (the empty text for k = 0).
RECURSIVE SentencePrefix(_, _)
SentencePrefix(sentences, k) ==
    IF k = 0 THEN ""
    ELSE IF k = 1 THEN sentences[1] \o "."
    ELSE SentencePrefix(sentences, k - 1) \o " " \o sentences[k] \o "."

\* The longest prefix of whole sentences of the text that fits max_length.
LongestFit(text, max_length) ==
    LET sentences == split(text, ". ")
        fits == {k \in 0..(Len(sentences) - 1) :
                    Len(SentencePrefix(sentences, k)) <= max_length}
    IN  SentencePrefix(sentences, CHOOSE k \in fits : \A j \in fits : j <= k)

\* C25: the text format_response returns is no longer than max_length; it
\* is the text itself when that fits, and otherwise the longest prefix of
\* whole sentences, split at ". ", that fits.
C25_FitsWithinLimit ==
    (program = "format" /\ IsSome(formatted) /\ IsSome(The(formatted).result)) =>
        LET f == The(formatted)
            r == The(f.result)
        IN  /\ Len(r) <= f.max_length
            /\ Len(f.text) <= f.max_length => r = f.text
            /\ Len(f.text) > f.max_length => r = LongestFit(f.text, f.max_length)
====
